---- MODULE Spec2Model ----
(***************************************************************************)
(* Model of the API stress tester (api_stress_tester.py): the scheduler    *)
(* loop of APITester.run_stress_test, the thread pool it feeds, the        *)
(* worker body APITester.make_request with the lock around self.results,   *)
(* and the evaluation APITester.log_results.                               *)
(*                                                                         *)
(* Time is the wall clock read through time.time(), in whole seconds; it   *)
(* advances on its own (Tick) between any two steps of any thread.  The    *)
(* pool's threads are anonymous: the calls they are running are held as a  *)
(* bag, one element per busy thread.                                       *)
(***************************************************************************)
EXTENDS Integers, Sequences, FiniteSets, Bags

\* ---------------------------------------------------------------- bounds
MaxUsers == 2          \* largest concurrent_users tried
MaxRequests == 2       \* largest workload tried: rate times duration in seconds

\* ------------------------------------------------------ program constants
SecondsPerMinute == 60         \* duration_minutes * 60
MsPerSecond == 1000            \* (time.time() - start_time) * 1000
SleepSeconds == 1              \* time.sleep(1)
Percent == 100                 \* (successful / total) * 100
ConfigResponseTimeMs == 2000   \* API_SUCCESS_CRITERIA['response_time_ms']
ConfigSuccessRatePercent == 99 \* API_SUCCESS_CRITERIA['success_rate_percent']
ConfigMaxErrorRatePercent == 1 \* API_SUCCESS_CRITERIA['max_error_rate_percent']
ConfigMaxRetries == 3          \* HTTP_CONFIG['max_retries']

VARIABLES
  concurrent_users,     \* API_CONFIG['concurrent_users']
  requests_per_second,  \* API_CONFIG['requests_per_second']
  duration_minutes,     \* API_CONFIG['test_duration_minutes'], a fraction of a
                        \* minute held as its number of sixtieths
  endpoints,            \* API_CONFIG['endpoints']
  criteria,             \* API_SUCCESS_CRITERIA
  now,                  \* the wall clock, time.time()
  pc,                   \* where the main thread is in run_stress_test
  start_time, end_time, \* locals of run_stress_test
  batch_i,              \* requests already submitted by the running for loop
  wake_time,            \* when the running time.sleep(1) may return
  work_queue,           \* the executor's queue of submitted, unstarted calls
  running,              \* the make_request calls the pool's threads are in
  lock,                 \* self.lock: TRUE while held
  results,              \* self.results
  verdict,              \* what log_results reported overall
  checked,              \* what log_results reported for each criterion
  submitted,            \* number of executor.submit calls made
  batches,              \* number of batches started
  session_calls,        \* number of session.get/post/put/delete calls made
  batch_start,          \* when the loop test of the batch under way passed
  cl_pc,                \* where cleanup_test_resources is
  resources,            \* what the API holds under the base path
  cl_i,                 \* records the for loop has been through
  deleted_count,        \* cleanup_test_resources' deleted_count
  deletes_sent,         \* indices of the records a DELETE was issued for
  deletes_ok,           \* number of DELETEs answered 200 or 204
  returned              \* what cleanup_test_resources returned, -1 before

config_vars == <<concurrent_users, requests_per_second, duration_minutes, endpoints, criteria>>
sched_vars == <<pc, start_time, end_time, batch_i, wake_time>>
report_vars == <<verdict, checked>>
count_vars == <<submitted, batches>>
trace_vars == <<session_calls, batch_start>>
cleanup_vars == <<cl_pc, resources, cl_i, deleted_count, deletes_sent, deletes_ok, returned>>
tester_vars == <<config_vars, now, sched_vars, work_queue, running, lock, results, report_vars, count_vars, trace_vars>>
vars == <<tester_vars, cleanup_vars>>

\* ------------------------------------------------------------ configuration
SupportedMethods == {"GET", "POST", "PUT", "DELETE"}

Endpoint(m, p, s) == [method |-> m, path |-> p, expected_status |-> s]

\* The shipped endpoint list (GET expecting 200, POST expecting 201), and an
\* edited list with a method make_request does not support.
ShippedEndpoints == <<Endpoint("GET", "/posts", 200), Endpoint("POST", "/posts", 201)>>

EditedEndpoints == <<Endpoint("PATCH", "/posts", 200)>>

EndpointConfigs == {ShippedEndpoints, EditedEndpoints}

ShippedCriteria ==
  [response_time_ms |-> ConfigResponseTimeMs,
   success_rate_percent |-> ConfigSuccessRatePercent,
   max_error_rate_percent |-> ConfigMaxErrorRatePercent]

\* What the target API may answer, and how the session call may fail.  Every
\* exception of the call (connection error, timeout) reaches the same
\* except clause; one stands for them.
Statuses == {200, 201}

TransportErrors == {"Timeout"}

NoOutcome == [kind |-> "none", status |-> 0, error |-> ""]

EmptyResults ==
  [total_requests |-> 0, successful_requests |-> 0, failed_requests |-> 0,
   response_times |-> <<>>, errors |-> <<>>]

NotChecked == [success_rate |-> "none", response_time |-> "none", error_rate |-> "none"]

\* cleanup_test_resources has not been called.
CleanupNotRun ==
  /\ cl_pc = "none"
  /\ resources = <<>>
  /\ cl_i = 0
  /\ deleted_count = 0
  /\ deletes_sent = {}
  /\ deletes_ok = 0
  /\ returned = -1

\* ------------------------------------------------------------------- Init
Init ==
  /\ concurrent_users \in 0..MaxUsers
  /\ requests_per_second \in 0..MaxRequests
  /\ duration_minutes \in 0..MaxRequests
  /\ requests_per_second * duration_minutes <= MaxRequests
  /\ endpoints \in EndpointConfigs
  /\ criteria = ShippedCriteria
  /\ now = 0
  /\ pc = "start"
  /\ start_time = 0
  /\ end_time = 0
  /\ batch_i = 0
  /\ wake_time = 0
  /\ work_queue = <<>>
  /\ running = EmptyBag
  /\ lock = FALSE
  /\ results = EmptyResults
  /\ verdict = "none"
  /\ checked = NotChecked
  /\ submitted = 0
  /\ batches = 0
  /\ session_calls = 0
  /\ batch_start = 0
  /\ CleanupNotRun

\* ------------------------------------------------------------ the scheduler
\* duration_minutes * 60, the length of the run in seconds.
DurationSeconds == (duration_minutes * SecondsPerMinute) \div SecondsPerMinute

LoopConditionInclusive == now <= end_time

LoopConditionStopOnFailure == now < end_time /\ results.failed_requests = 0

\* while time.time() < end_time
LoopCondition == now < end_time

\* ThreadPoolExecutor(max_workers=concurrent_users) raises ValueError unless
\* max_workers > 0.
PoolCreated == concurrent_users > 0

\* time.sleep(1) returns no earlier than one second after the call.
WakeTime == now + SleepSeconds

DrainNoWait == TRUE

\* Leaving the with block is executor.shutdown(wait=True): it returns once
\* every submitted call has run to its end.
DrainComplete == work_queue = <<>> /\ running = EmptyBag

PoolUnbounded == TRUE

\* The executor starts at most max_workers threads, each running one call at
\* a time: a queued call starts only when fewer than that many are running.
PoolHasFreeThread == BagCardinality(running) < concurrent_users

Start ==
  /\ pc = "start"
  /\ start_time' = now
  /\ end_time' = now + DurationSeconds
  /\ pc' = IF PoolCreated THEN "check" ELSE "error"
  /\ UNCHANGED <<cleanup_vars, trace_vars, config_vars, now, batch_i, wake_time, work_queue, running,
                 lock, results, report_vars, count_vars>>

CheckTime ==
  /\ pc = "check"
  /\ IF LoopCondition
       THEN /\ pc' = "submit"
            /\ batch_i' = 0
            /\ batches' = batches + 1
            /\ batch_start' = now
       ELSE /\ pc' = "drain"
            /\ UNCHANGED <<batch_i, batches, batch_start>>
  /\ UNCHANGED <<cleanup_vars, session_calls, config_vars, now, start_time, end_time, wake_time, work_queue,
                 running, lock, results, report_vars, submitted>>

\* The submitted calls that have not run to their end: those waiting in the
\* executor's queue and those a pool thread is running.
Outstanding == Len(work_queue) + BagCardinality(running)

SubmitWhenFree ==
  /\ pc = "submit"
  /\ batch_i < requests_per_second
  /\ Outstanding < concurrent_users
  /\ \E k \in 1..Len(endpoints) :
       work_queue' = Append(work_queue, endpoints[k])
  /\ batch_i' = batch_i + 1
  /\ submitted' = submitted + 1
  /\ UNCHANGED <<cleanup_vars, trace_vars, config_vars, now, pc, start_time, end_time, wake_time,
                 running, lock, results, report_vars, batches>>

\* for _ in range(requests_per_second): executor.submit(make_request,
\* random.choice(endpoints))
Submit ==
  /\ pc = "submit"
  /\ batch_i < requests_per_second
  /\ \E k \in 1..Len(endpoints) :
       work_queue' = Append(work_queue, endpoints[k])
  /\ batch_i' = batch_i + 1
  /\ submitted' = submitted + 1
  /\ UNCHANGED <<cleanup_vars, trace_vars, config_vars, now, pc, start_time, end_time, wake_time,
                 running, lock, results, report_vars, batches>>

BeginSleep ==
  /\ pc = "submit"
  /\ batch_i >= requests_per_second
  /\ pc' = "sleep"
  /\ wake_time' = WakeTime
  /\ UNCHANGED <<cleanup_vars, trace_vars, config_vars, now, start_time, end_time, batch_i, work_queue,
                 running, lock, results, report_vars, count_vars>>

EndSleep ==
  /\ pc = "sleep"
  /\ now >= wake_time
  /\ pc' = "check"
  /\ wake_time' = 0
  /\ batch_start' = 0
  /\ UNCHANGED <<cleanup_vars, session_calls, config_vars, now, start_time, end_time, batch_i,
                 work_queue, running, lock, results, report_vars, count_vars>>

Drain ==
  /\ pc = "drain"
  /\ DrainComplete
  /\ pc' = "log"
  /\ UNCHANGED <<cleanup_vars, trace_vars, config_vars, now, start_time, end_time, batch_i, wake_time,
                 work_queue, running, lock, results, report_vars, count_vars>>

\* The clock advances while the run is on.  It is followed up to end_time,
\* and beyond it for as long as a sleep has yet to return.
Tick ==
  /\ pc \in {"check", "submit", "sleep", "drain", "log"}
  /\ \/ now < end_time
     \/ pc = "sleep" /\ now < wake_time
  /\ now' = now + 1
  /\ UNCHANGED <<cleanup_vars, trace_vars, config_vars, sched_vars, work_queue, running, lock,
                 results, report_vars, count_vars>>

\* ------------------------------------------------------------- make_request
\* A call of make_request in progress: where it is, its endpoint, its
\* start_time, the response or exception it got, and its response_time.
Call(at, ep, st, out, rt) ==
  [at |-> at, endpoint |-> ep, start_time |-> st, outcome |-> out, response_time |-> rt]

Put(b, c) == b (+) SetToBag({c})

Drop(b, c) == b (-) SetToBag({c})

\* start_time = time.time() ... response_time = (time.time() - start_time) * 1000
ResponseTimeMs(c) == (now - c.start_time) * MsPerSecond

Response(s) == [kind |-> "response", status |-> s, error |-> ""]

Raised(e) == [kind |-> "error", status |-> 0, error |-> e]

\* with self.lock: total_requests += 1; response_times.append(response_time)
CountResponse(r, rt) ==
  [r EXCEPT !.total_requests = @ + 1, !.response_times = Append(@, rt)]

ClassifyResponseFixedStatus(r, ep, status, rt) ==
  IF status = 200
    THEN [r EXCEPT !.successful_requests = @ + 1]
    ELSE [r EXCEPT !.failed_requests = @ + 1,
                   !.errors = Append(@, [method |-> ep.method, path |-> ep.path,
                                         expected |-> ep.expected_status,
                                         actual |-> status,
                                         response_time |-> rt])]

ClassifyResponseNoRecord(r, ep, status, rt) ==
  IF status = ep.expected_status
    THEN [r EXCEPT !.successful_requests = @ + 1]
    ELSE [r EXCEPT !.failed_requests = @ + 1]

\* if response.status_code == expected_status: ... else: ...
ClassifyResponse(r, ep, status, rt) ==
  IF status = ep.expected_status
    THEN [r EXCEPT !.successful_requests = @ + 1]
    ELSE [r EXCEPT !.failed_requests = @ + 1,
                   !.errors = Append(@, [method |-> ep.method, path |-> ep.path,
                                         expected |-> ep.expected_status,
                                         actual |-> status,
                                         response_time |-> rt])]

CountExceptionLost(r) == r

\* except Exception: with self.lock: total_requests += 1
CountException(r) == [r EXCEPT !.total_requests = @ + 1]

ClassifyExceptionUncounted(r, ep, e, rt) ==
  [r EXCEPT !.errors = Append(@, [method |-> ep.method, path |-> ep.path,
                                  error |-> e, response_time |-> rt])]

\* failed_requests += 1; errors.append({... 'error': str(e) ...})
ClassifyException(r, ep, e, rt) ==
  [r EXCEPT !.failed_requests = @ + 1,
            !.errors = Append(@, [method |-> ep.method, path |-> ep.path,
                                  error |-> e, response_time |-> rt])]

\* A pool thread takes the oldest queued call and runs make_request up to
\* start_time = time.time().
TakeWork ==
  /\ PoolHasFreeThread
  /\ work_queue /= <<>>
  /\ running' = Put(running, Call("send", Head(work_queue), now, NoOutcome, 0))
  /\ work_queue' = Tail(work_queue)
  /\ UNCHANGED <<cleanup_vars, trace_vars, config_vars, now, sched_vars, lock, results, report_vars,
                 count_vars>>

\* The request returns a response with some status code.
GetResponse(c) ==
  /\ c.at = "send"
  /\ c.endpoint.method \in SupportedMethods
  /\ \E s \in Statuses :
       running' = Put(Drop(running, c),
                      Call("acquire", c.endpoint, 0, Response(s), ResponseTimeMs(c)))
  /\ session_calls' = session_calls + 1
  /\ UNCHANGED <<cleanup_vars, batch_start, config_vars, now, sched_vars, work_queue, lock, results,
                 report_vars, count_vars>>

\* The request raises: a transport error or a timeout from the session call,
\* or ValueError for a method that is none of GET, POST, PUT, DELETE.
GetException(c) ==
  /\ c.at = "send"
  /\ \E e \in (IF c.endpoint.method \in SupportedMethods
                 THEN TransportErrors ELSE {"ValueError"}) :
       running' = Put(Drop(running, c),
                      Call("acquire", c.endpoint, 0, Raised(e), ResponseTimeMs(c)))
  /\ session_calls' = IF c.endpoint.method \in SupportedMethods
                        THEN session_calls + 1 ELSE session_calls
  /\ UNCHANGED <<cleanup_vars, batch_start, config_vars, now, sched_vars, work_queue, lock, results,
                 report_vars, count_vars>>

AcquireNoWait(c) ==
  /\ c.at = "acquire"
  /\ lock' = TRUE
  /\ running' = Put(Drop(running, c), [c EXCEPT !.at = "count"])
  /\ UNCHANGED <<cleanup_vars, trace_vars, config_vars, now, sched_vars, work_queue, results,
                 report_vars, count_vars>>

\* with self.lock: (entry)
Acquire(c) ==
  /\ c.at = "acquire"
  /\ ~lock
  /\ lock' = TRUE
  /\ running' = Put(Drop(running, c), [c EXCEPT !.at = "count"])
  /\ UNCHANGED <<cleanup_vars, trace_vars, config_vars, now, sched_vars, work_queue, results,
                 report_vars, count_vars>>

Count(c) ==
  /\ c.at = "count"
  /\ results' = IF c.outcome.kind = "response"
                  THEN CountResponse(results, c.response_time)
                  ELSE CountException(results)
  /\ running' = Put(Drop(running, c), [c EXCEPT !.at = "classify"])
  /\ UNCHANGED <<cleanup_vars, trace_vars, config_vars, now, sched_vars, work_queue, lock, report_vars,
                 count_vars>>

Classify(c) ==
  /\ c.at = "classify"
  /\ results' = IF c.outcome.kind = "response"
                  THEN ClassifyResponse(results, c.endpoint, c.outcome.status,
                                        c.response_time)
                  ELSE ClassifyException(results, c.endpoint, c.outcome.error,
                                         c.response_time)
  /\ running' = Put(Drop(running, c), [c EXCEPT !.at = "release"])
  /\ UNCHANGED <<cleanup_vars, trace_vars, config_vars, now, sched_vars, work_queue, lock, report_vars,
                 count_vars>>

ReleaseKeepsLock(c) ==
  /\ c.at = "release"
  /\ running' = Drop(running, c)
  /\ UNCHANGED <<cleanup_vars, trace_vars, config_vars, now, sched_vars, work_queue, lock,
                 results, report_vars, count_vars>>

\* with self.lock: (exit); make_request returns and the thread is free again.
Release(c) ==
  /\ c.at = "release"
  /\ lock' = FALSE
  /\ running' = Drop(running, c)
  /\ UNCHANGED <<cleanup_vars, trace_vars, config_vars, now, sched_vars, work_queue, results,
                 report_vars, count_vars>>

\* --------------------------------------------------------------- log_results
RECURSIVE Sum(_)
Sum(seq) == IF seq = <<>> THEN 0 ELSE Head(seq) + Sum(Tail(seq))

SuccessRateNotAbove(r, c) ==
  r.successful_requests * Percent <= c.success_rate_percent * r.total_requests

\* success_rate = (successful / total) * 100; success_rate < threshold,
\* compared exactly by cross-multiplying with total > 0.
SuccessRateBelow(r, c) ==
  r.successful_requests * Percent < c.success_rate_percent * r.total_requests

AvgResponseTimeAboveNoDefault(r, c) ==
  IF r.response_times /= <<>>
    THEN Sum(r.response_times) > c.response_time_ms * Len(r.response_times)
    ELSE TRUE

\* avg_response_time = sum(times) / len(times) if times else 0;
\* avg_response_time > threshold
AvgResponseTimeAbove(r, c) ==
  IF r.response_times /= <<>>
    THEN Sum(r.response_times) > c.response_time_ms * Len(r.response_times)
    ELSE 0 > c.response_time_ms

\* error_rate = (failed / total) * 100; error_rate > threshold
ErrorRateAbove(r, c) ==
  r.failed_requests * Percent > c.max_error_rate_percent * r.total_requests

Mark(failed) == IF failed THEN "failed" ELSE "met"

\* The three independent if/else blocks and the final criteria_met report.
CheckCriteria(r, c) ==
  LET sr == SuccessRateBelow(r, c)
      rt == AvgResponseTimeAbove(r, c)
      er == ErrorRateAbove(r, c)
  IN  [verdict |-> IF sr \/ rt \/ er THEN "fail" ELSE "pass",
       checked |-> [success_rate |-> Mark(sr), response_time |-> Mark(rt),
                    error_rate |-> Mark(er)]]

\* Lines 199-234: the rates divide by total, so total = 0 raises
\* ZeroDivisionError before any criterion is looked at.
Evaluate(r, c) ==
  IF r.total_requests = 0
    THEN [verdict |-> "ZeroDivisionError", checked |-> NotChecked]
    ELSE CheckCriteria(r, c)

ReportUnguarded(r, c) == Evaluate(r, c)

\* if total == 0: logging.error("No requests were made!"); return
Report(r, c) ==
  IF r.total_requests = 0
    THEN [verdict |-> "no_data", checked |-> NotChecked]
    ELSE Evaluate(r, c)

LogResults ==
  /\ pc = "log"
  /\ verdict' = Report(results, criteria).verdict
  /\ checked' = Report(results, criteria).checked
  /\ pc' = "done"
  /\ UNCHANGED <<cleanup_vars, trace_vars, config_vars, now, start_time, end_time, batch_i, wake_time,
                 work_queue, running, lock, results, count_vars>>

\* ------------------------------------------------------------ specification
Next ==
  \/ Start
  \/ CheckTime
  \/ Submit
  \/ BeginSleep
  \/ EndSleep
  \/ Drain
  \/ LogResults
  \/ Tick
  \/ TakeWork
  \/ \E c \in BagToSet(running) : GetResponse(c)
  \/ \E c \in BagToSet(running) : GetException(c)
  \/ \E c \in BagToSet(running) : Acquire(c)
  \/ \E c \in BagToSet(running) : Count(c)
  \/ \E c \in BagToSet(running) : Classify(c)
  \/ \E c \in BagToSet(running) : Release(c)

Spec == Init /\ [][Next]_vars

\* The run under the scheduling the platform gives: the clock advances, the
\* main thread and every pool thread that can take a step eventually takes
\* one, and every session call eventually returns or raises.
MainThreadStep ==
  Start \/ CheckTime \/ Submit \/ BeginSleep \/ EndSleep \/ Drain \/ LogResults

SessionCallEnds == \E c \in BagToSet(running) : GetResponse(c) \/ GetException(c)

Fairness ==
  /\ WF_vars(Tick)
  /\ WF_vars(MainThreadStep)
  /\ WF_vars(TakeWork)
  /\ WF_vars(SessionCallEnds)
  /\ WF_vars(\E c \in BagToSet(running) : Acquire(c))
  /\ WF_vars(\E c \in BagToSet(running) : Count(c))
  /\ WF_vars(\E c \in BagToSet(running) : Classify(c))
  /\ WF_vars(\E c \in BagToSet(running) : Release(c))

\* The configurations in which every batch holds more requests than the pool
\* has threads, so that work always queues behind the running calls.
InitOverload ==
  /\ Init
  /\ concurrent_users > 0
  /\ requests_per_second > concurrent_users

SpecOverload == InitOverload /\ [][Next]_vars /\ Fairness

\* ------------------------------------------- log_results on its own inputs
\* log_results applied to results a run can leave behind: s expected
\* responses, u unexpected ones and x exceptions, in any number up to
\* MaxEvalRequests, with any latencies, under several sets of thresholds.
MaxEvalRequests == 3

EvalLatencies == {1000, 2000, 3000}

EvalCriteria ==
  [response_time_ms : {ConfigResponseTimeMs},
   success_rate_percent : {50, ConfigSuccessRatePercent},
   max_error_rate_percent : {ConfigMaxErrorRatePercent, 50}]

StatusError == [method |-> "GET", path |-> "/posts", expected |-> 200,
                actual |-> 201, response_time |-> 0]

ExceptionError == [method |-> "GET", path |-> "/posts", error |-> "Timeout",
                   response_time |-> 0]

EvalErrors(u, x) == [i \in 1..(u + x) |-> IF i <= u THEN StatusError ELSE ExceptionError]

InitEval ==
  /\ concurrent_users = 1
  /\ requests_per_second = 0
  /\ duration_minutes = 0
  /\ endpoints = ShippedEndpoints
  /\ criteria \in EvalCriteria
  /\ now = 0
  /\ pc = "log"
  /\ start_time = 0
  /\ end_time = 0
  /\ batch_i = 0
  /\ wake_time = 0
  /\ work_queue = <<>>
  /\ running = EmptyBag
  /\ lock = FALSE
  /\ \E s \in 0..MaxEvalRequests, u \in 0..MaxEvalRequests, x \in 0..MaxEvalRequests :
       /\ s + u + x <= MaxEvalRequests
       /\ \E rts \in [1..(s + u) -> EvalLatencies] :
            results = [total_requests |-> s + u + x,
                       successful_requests |-> s,
                       failed_requests |-> u + x,
                       response_times |-> rts,
                       errors |-> EvalErrors(u, x)]
  /\ verdict = "none"
  /\ checked = NotChecked
  /\ submitted = 0
  /\ batches = 0
  /\ session_calls = 0
  /\ batch_start = 0
  /\ CleanupNotRun

NextEval == LogResults

SpecEval == InitEval /\ [][NextEval]_vars

\* ------------------------------------------------- cleanup_test_resources
\* api_cleanup.py is a program of its own: while it runs no APITester exists.
TesterNotRun ==
  /\ concurrent_users = 0
  /\ requests_per_second = 0
  /\ duration_minutes = 0
  /\ endpoints = ShippedEndpoints
  /\ criteria = ShippedCriteria
  /\ now = 0
  /\ pc = "none"
  /\ start_time = 0
  /\ end_time = 0
  /\ batch_i = 0
  /\ wake_time = 0
  /\ work_queue = <<>>
  /\ running = EmptyBag
  /\ lock = FALSE
  /\ results = EmptyResults
  /\ verdict = "none"
  /\ checked = NotChecked
  /\ submitted = 0
  /\ batches = 0
  /\ session_calls = 0
  /\ batch_start = 0

MaxResources == 2

\* One fetched record.  metadata is "absent" (no such key), "flag"
\* ({'test_data': True}), "dict" (a dict without the flag) or "null" (the key
\* is there and holds None); id is 0 when the record has no id or a falsy one.
Resource(n, e, d, m, i) ==
  [name |-> n, email |-> e, description |-> d, metadata |-> m, id |-> i]

ResourceKinds ==
  { Resource("Test Item 1", "", "", "absent", 1),
    Resource("widget", "test@example.com", "", "dict", 2),
    Resource("widget", "", "a TEST run", "absent", 0),
    Resource("widget", "", "", "flag", 3),
    Resource("widget", "", "", "dict", 4),
    Resource("Test Item 1", "", "", "null", 5),
    Resource("widget", "", "", "null", 6) }

\* 'test' in str(x).lower()
ContainsTestLower(x) == x \in {"Test Item 1", "test@example.com", "a TEST run"}

\* 'Test Item' in str(name)
ContainsTestItem(x) == x \in {"Test Item 1"}

\* 'test@example.com' in str(email)
ContainsTestEmail(x) == x \in {"test@example.com"}

\* resource.get('metadata', {}).get('test_data'): None has no get, so the
\* list of indicators, built in full before any() looks at it, raises
\* AttributeError.
IsTestDataRaises(r) == r.metadata = "null"

\* any(test_indicators), for a record on which building the list succeeds.
IsTestData(r) ==
  \/ ContainsTestLower(r.name)
  \/ ContainsTestLower(r.email)
  \/ ContainsTestLower(r.description)
  \/ r.metadata = "flag"
  \/ ContainsTestItem(r.name)
  \/ ContainsTestEmail(r.email)

\* What a session call can do: answer with a status, or raise.
Answer(st) == [raised |-> FALSE, status |-> st]

Raise == [raised |-> TRUE, status |-> 0]

GetOutcomes == {Answer(200), Answer(404), Raise}

DeleteOutcomes == {Answer(200), Answer(204), Answer(404), Raise}

\* delete_response.status_code in [200, 204]
DeletedStatuses == {200, 204}

\* except Exception: log; return 0
ReturnFromExcept ==
  /\ cl_pc' = "done"
  /\ returned' = 0

InitCleanup ==
  /\ TesterNotRun
  /\ cl_pc = "get"
  /\ \E n \in 0..MaxResources : resources \in [1..n -> ResourceKinds]
  /\ cl_i = 0
  /\ deleted_count = 0
  /\ deletes_sent = {}
  /\ deletes_ok = 0
  /\ returned = -1

\* response = self.session.get(url); if response.status_code == 200:
\* resources = response.json(); deleted_count = 0.  Any other status leaves
\* the try block without a return and ends in the final return 0.
Fetch ==
  /\ cl_pc = "get"
  /\ \E out \in GetOutcomes :
       IF out.raised
         THEN ReturnFromExcept /\ UNCHANGED <<cl_i, deleted_count>>
         ELSE IF out.status = 200
           THEN /\ cl_pc' = "loop"
                /\ cl_i' = 1
                /\ deleted_count' = 0
                /\ UNCHANGED returned
           ELSE /\ cl_pc' = "done"
                /\ returned' = 0
                /\ UNCHANGED <<cl_i, deleted_count>>
  /\ UNCHANGED <<tester_vars, resources, deletes_sent, deletes_ok>>

\* for resource in resources: if self.is_test_data(resource):
\* resource_id = resource.get('id'); if resource_id: ... up to the DELETE.
CheckResource ==
  /\ cl_pc = "loop"
  /\ cl_i <= Len(resources)
  /\ LET r == resources[cl_i] IN
       IF IsTestDataRaises(r)
         THEN ReturnFromExcept /\ UNCHANGED cl_i
         ELSE IF IsTestData(r) /\ r.id /= 0
           THEN cl_pc' = "delete" /\ UNCHANGED <<cl_i, returned>>
           ELSE cl_i' = cl_i + 1 /\ UNCHANGED <<cl_pc, returned>>
  /\ UNCHANGED <<tester_vars, resources, deleted_count, deletes_sent, deletes_ok>>

\* delete_response = self.session.delete(delete_url);
\* if delete_response.status_code in [200, 204]: deleted_count += 1
Delete ==
  /\ cl_pc = "delete"
  /\ deletes_sent' = deletes_sent \cup {cl_i}
  /\ \E out \in DeleteOutcomes :
       IF out.raised
         THEN ReturnFromExcept /\ UNCHANGED <<cl_i, deleted_count, deletes_ok>>
         ELSE /\ cl_pc' = "loop"
              /\ cl_i' = cl_i + 1
              /\ IF out.status \in DeletedStatuses
                   THEN /\ deleted_count' = deleted_count + 1
                        /\ deletes_ok' = deletes_ok + 1
                   ELSE UNCHANGED <<deleted_count, deletes_ok>>
              /\ UNCHANGED returned
  /\ UNCHANGED <<tester_vars, resources>>

\* return deleted_count, after the last record.
Return ==
  /\ cl_pc = "loop"
  /\ cl_i > Len(resources)
  /\ cl_pc' = "done"
  /\ returned' = deleted_count
  /\ UNCHANGED <<tester_vars, resources, cl_i, deleted_count, deletes_sent, deletes_ok>>

NextCleanup == Fetch \/ CheckResource \/ Delete \/ Return

SpecCleanup == InitCleanup /\ [][NextCleanup]_vars

\* ------------------------------------------------------------------ claims
AfterLoop == {"drain", "log", "done"}

IsFailure(c) ==
  \/ c.outcome.kind = "error"
  \/ c.outcome.kind = "response" /\ c.outcome.status /= c.endpoint.expected_status

\* Calls that are running and have not yet been counted in total_requests.
Uncounted == {c \in BagToSet(running) : c.at \in {"send", "acquire", "count"}}

UncountedCalls == BagCardinality([c \in Uncounted |-> running[c]])

\* C1: whenever the lock is free, total_requests = successful_requests +
\* failed_requests, under every interleaving of the pool's threads and on the
\* response path and the exception path alike.
C1_TotalIsSuccessPlusFailure ==
  ~lock => results.total_requests =
             results.successful_requests + results.failed_requests

C1_Witness ==
  /\ ~lock
  /\ results.successful_requests >= 1
  /\ \E i \in 1..Len(results.errors) : "error" \in DOMAIN results.errors[i]

\* C2: whenever the lock is free, the number of recorded latency samples
\* equals total_requests, whatever the outcomes were.
C2_LatencySamplePerRequest ==
  ~lock => Len(results.response_times) = results.total_requests

\* C3: when log_results reads the results, total_requests equals the number of
\* executor.submit calls of the run: nothing lost, nothing counted twice.
C3_EverySubmissionRecordedOnce ==
  pc \in {"log", "done"} => results.total_requests = submitted

C3_Witness ==
  /\ pc = "log"
  /\ submitted >= 2
  /\ results.successful_requests >= 1
  /\ results.failed_requests >= 1

\* C4 as stated: from the moment the clock has reached end_time no request is
\* submitted, no submitted request is dropped, and log_results starts only
\* when every submitted request has finished recording.
C4_NoSubmissionPastLimit ==
  [][/\ now >= end_time => submitted' = submitted
     /\ submitted' = Len(work_queue') + UncountedCalls' + results'.total_requests
     /\ pc' \in {"log", "done"} => (work_queue' = <<>> /\ running' = EmptyBag)]_vars

\* C4 amended: once the loop test has found the limit reached, no request is
\* submitted (a batch whose test passed earlier is still submitted in full);
\* no submitted request is dropped: each is queued, running or counted; and
\* log_results starts only when every submitted request has finished
\* recording.
C4_DrainBeforeEvaluation ==
  [][/\ pc \in AfterLoop => submitted' = submitted
     /\ submitted' = Len(work_queue') + UncountedCalls' + results'.total_requests
     /\ pc' \in {"log", "done"} => (work_queue' = <<>> /\ running' = EmptyBag)]_vars

C4_Witness ==
  /\ pc = "drain"
  /\ now >= end_time
  /\ work_queue /= <<>>
  /\ running /= EmptyBag

\* C5: the number of calls inside make_request never exceeds
\* concurrent_users, whatever the rate and however long calls take.
C5_ExecutingAtMostConcurrency == BagCardinality(running) <= concurrent_users

C5_Witness ==
  /\ BagCardinality(running) = concurrent_users
  /\ concurrent_users >= 1
  /\ work_queue /= <<>>

\* C6: with a duration of 0 or a rate of 0 nothing is ever submitted and the
\* results stay zero and empty up to the end of the run.
C6_ZeroRunIsEmpty ==
  (duration_minutes = 0 \/ requests_per_second = 0) =>
    /\ submitted = 0
    /\ work_queue = <<>>
    /\ running = EmptyBag
    /\ results = EmptyResults

C6_Witness ==
  /\ pc = "done"
  /\ duration_minutes = 0
  /\ requests_per_second > 0
  /\ results = EmptyResults

\* C7: a finished run with rate R and duration D seconds has started exactly
\* D batches and made exactly R * D submissions.
C7_ExactlyRateTimesDuration ==
  pc = "done" =>
    /\ batches = DurationSeconds
    /\ submitted = requests_per_second * DurationSeconds

\* C8: evaluating with total_requests = 0 ends in the no-data report: no rate
\* is computed, no criterion is looked at, and neither verdict is given.
C8_NoDataIsDistinct ==
  (pc = "done" /\ results.total_requests = 0) =>
    /\ verdict = "no_data"
    /\ checked = NotChecked

C8_Witness ==
  /\ pc = "done"
  /\ results.total_requests = 0
  /\ batches >= 1
  /\ verdict = "no_data"

\* C9: with total_requests > 0 the verdict is pass exactly when the success
\* rate is at least its threshold, the mean latency at most its threshold and
\* the error rate at most its threshold; each criterion is reported on its
\* own, whatever the others gave, and a value equal to its threshold passes.
C9_SuccessRateOk ==
  results.successful_requests * Percent >=
    criteria.success_rate_percent * results.total_requests

C9_MeanLatencyOk ==
  Sum(results.response_times) <=
    criteria.response_time_ms * Len(results.response_times)

C9_ErrorRateOk ==
  results.failed_requests * Percent <=
    criteria.max_error_rate_percent * results.total_requests

C10_FailuresDoNotStopTheRun ==
  /\ [](pc \in AfterLoop => now >= end_time)
  /\ [][\A c \in BagToSet(running) :
          (c.at = "classify" /\ IsFailure(c) /\ results' /= results) =>
            /\ results'.failed_requests = results.failed_requests + 1
            /\ results'.successful_requests = results.successful_requests
            /\ results'.total_requests = results.total_requests]_vars

C10_Witness ==
  /\ pc = "submit"
  /\ batches >= 2
  /\ results.failed_requests >= 1
  /\ now < end_time

\* The error records of the exception path, and those among them that a
\* failed session call left.
ExceptionRecords == {i \in 1..Len(results.errors) : "error" \in DOMAIN results.errors[i]}

TransportFailures == {i \in ExceptionRecords : results.errors[i].error \in TransportErrors}

StatusRecords == {i \in 1..Len(results.errors) : "actual" \in DOMAIN results.errors[i]}

\* C11: a request that ends as a transport failure (connection error or
\* timeout) has been tried 1 + max_retries times before it is recorded; a
\* request answered with an unexpected status is tried once.  Counted over a
\* finished run: the session calls made are at least one per response plus
\* 1 + max_retries per recorded transport failure, and at most one per
\* unexpected status plus 1 + max_retries per other request.
C11_TransportFailuresRetried ==
  pc = "done" =>
    /\ session_calls >= Len(results.response_times)
                          + (1 + ConfigMaxRetries) * Cardinality(TransportFailures)
    /\ session_calls <= Cardinality(StatusRecords)
                          + (1 + ConfigMaxRetries)
                              * (results.successful_requests + Cardinality(TransportFailures))

\* C12: a configuration with an endpoint whose method is none of GET, POST,
\* PUT, DELETE, or with a rate or a concurrency of zero or less, never gets
\* past the start of the run: it ends in the error state, with nothing
\* submitted and nothing recorded.
ConfigurationError ==
  \/ \E k \in 1..Len(endpoints) : endpoints[k].method \notin SupportedMethods
  \/ requests_per_second <= 0
  \/ concurrent_users <= 0

C12_ConfigurationErrorIsFatal ==
  ConfigurationError =>
    /\ pc \in {"start", "error"}
    /\ submitted = 0
    /\ results = EmptyResults

\* C13: classifying a call adds one to successful_requests exactly when it
\* got a response whose status equals its endpoint's expected_status; in
\* every other case (another status, a timeout, any exception) it adds one
\* to failed_requests and nothing to successful_requests.
C13_SuccessIffExpectedStatus ==
  [][\A c \in BagToSet(running) :
       (c.at = "classify" /\ results' /= results) =>
         IF c.outcome.kind = "response"
            /\ c.outcome.status = c.endpoint.expected_status
           THEN /\ results'.successful_requests = results.successful_requests + 1
                /\ results'.failed_requests = results.failed_requests
           ELSE /\ results'.failed_requests = results.failed_requests + 1
                /\ results'.successful_requests = results.successful_requests]_vars

C13_Witness ==
  /\ ~lock
  /\ results.successful_requests = 1
  /\ Cardinality(StatusRecords) = 1
  /\ results.failed_requests = 1

\* C14: whenever the lock is free the errors list holds one record per
\* failed request: every failure appends one, a success none.
C14_OneErrorRecordPerFailure ==
  ~lock => Len(results.errors) = results.failed_requests

C14_Witness ==
  /\ ~lock
  /\ Cardinality(StatusRecords) = 1
  /\ Cardinality(ExceptionRecords) = 1

\* C15: at most one call at a time is between taking and releasing
\* self.lock, the lock is held exactly then, and the updates of one outcome
\* are not interleaved with another's: while the holder is between its two
\* updates the counters differ by its one increment only.
InLock == {c \in BagToSet(running) : c.at \in {"count", "classify", "release"}}

InLockCalls == BagCardinality([c \in InLock |-> running[c]])

C15_UpdatesUnderOneLock ==
  /\ InLockCalls <= 1
  /\ lock <=> InLockCalls = 1
  /\ \A c \in InLock :
       results.total_requests =
         results.successful_requests + results.failed_requests
           + (IF c.at = "classify" THEN 1 ELSE 0)

C15_Witness ==
  /\ lock
  /\ \E c \in InLock : c.at = "classify"
  /\ \E c \in BagToSet(running) : c.at = "acquire"

\* C16: with the clock advancing and every session call ending, a run whose
\* pool could be created comes to its end: the loop stops at the time limit,
\* every submitted request is recorded, and log_results is reached, also
\* when each batch holds more requests than the pool has threads.
C16_RunTerminates ==
  (pc = "start" /\ PoolCreated) ~>
    (pc = "done" /\ now >= end_time /\ results.total_requests = submitted)

C16_Witness ==
  /\ pc = "done"
  /\ requests_per_second > concurrent_users
  /\ submitted >= 2
  /\ results.total_requests = submitted

\* C17: after a batch the scheduler sleeps only for the remainder of the
\* second: when submitting the batch took at most one second it wakes one
\* second after the batch started, otherwise it does not sleep at all.
C17_SleepsRemainderOfSecond ==
  [][(pc = "submit" /\ pc' = "sleep") =>
       wake_time' = IF now - batch_start <= SleepSeconds
                      THEN batch_start + SleepSeconds
                      ELSE now]_vars

\* C18: the pool never throttles submission: while a batch is incomplete the
\* next submit can always be made, whatever the pool is doing; every batch
\* submits exactly requests_per_second requests; and the submitted calls that
\* have not finished are bounded only by requests_per_second times the number
\* of batches, not by concurrent_users.
C18_SubmissionNeverThrottled ==
  /\ (pc = "submit" /\ batch_i < requests_per_second) => ENABLED Submit
  /\ pc = "submit" => submitted = requests_per_second * (batches - 1) + batch_i
  /\ pc \in {"check", "sleep", "drain", "log", "done"} =>
       submitted = requests_per_second * batches
  /\ Outstanding <= requests_per_second * batches

C18_Witness ==
  /\ concurrent_users > 0
  /\ batches >= 2
  /\ BagCardinality(running) = concurrent_users
  /\ Outstanding > concurrent_users
  /\ Outstanding = requests_per_second * batches

\* C19: the latencies the report averages are those of the requests that got
\* a response, one each, and none from a request that raised; a finished run
\* with requests in which every request raised has no latency at all, its
\* average is taken as 0 and the average-latency criterion is reported met
\* (the run still fails on the other two criteria).
C19_AverageOverResponsesOnly ==
  (pc = "done" /\ results.total_requests > 0) =>
    /\ Len(results.response_times)
         = results.successful_requests + Cardinality(StatusRecords)
    /\ Len(results.response_times) + Cardinality(ExceptionRecords)
         = results.total_requests
    /\ Cardinality(ExceptionRecords) = results.total_requests =>
         /\ results.response_times = <<>>
         /\ ~AvgResponseTimeAbove(results, criteria)
         /\ checked.response_time = "met"
         /\ verdict = "fail"

C19_Witness ==
  /\ pc = "done"
  /\ results.total_requests = 2
  /\ Cardinality(TransportFailures) = 2
  /\ results.response_times = <<>>
  /\ checked.response_time = "met"
  /\ checked.success_rate = "failed"

\* C20: cleanup_test_resources sends DELETE only for fetched records that
\* satisfy the test-data predicate and have an id, and the number it returns
\* is the number of records whose DELETE was answered 200 or 204, whatever
\* raised later in the same call.
C20_ReturnsCountDeleted ==
  /\ \A i \in deletes_sent :
       /\ ~IsTestDataRaises(resources[i])
       /\ IsTestData(resources[i])
       /\ resources[i].id /= 0
  /\ cl_pc = "done" => returned = deletes_ok

====
